---- MODULE Spec2Model ----
(***************************************************************************)
(* Model of the DHCPv4 transport core of pyroute2:                         *)
(*   - pyroute2/dhcp/dhcp4socket.py : listen_udp_port (socket filter)      *)
(*   - pyroute2/dhcp/xids.py        : Xid (transaction identifiers)        *)
(*   - pyroute2/dhcp/timers.py      : Timers (lease timers)                *)
(* Each part has its own specification over the shared variables:          *)
(* SpecFilter, SpecXid and SpecTimers.                                     *)
(***************************************************************************)
EXTENDS Integers, Sequences, FiniteSets, TLC

VARIABLES
    \* --- socket filter evaluation (dhcp4socket.py) ---
    port,       \* the port listen_udp_port was called with
    prog,       \* the program listen_udp_port returned
    frame,      \* the raw frame under evaluation
    pc,         \* index (0-based) of the next instruction
    regA,       \* accumulator
    regX,       \* index register
    verdict,    \* <<>> while running, then <<k>> for the RET k executed
    \* --- transaction identifiers (xids.py) ---
    State,      \* the members of the State enumeration (pyroute2.dhcp.fsm)
    xids,       \* the Xid objects created so far
    xcall,      \* the last Xid operation and its outcome
    \* --- lease timers (timers.py) ---
    slots,      \* Timers.renewal / .rebinding / .expiration
    handles,    \* every TimerHandle call_later has returned
    tasks,      \* the tasks asyncio.create_task has spawned
    now,        \* the event loop's clock
    arms,       \* the arm() calls made so far
    tcall,      \* the last Timers operation or event-loop step
    \* --- the DHCP socket (dhcp4socket.py) ---
    msgs,       \* the SentDHCPMessage objects handed to put
    sent,       \* the frames sock_sendall has sent
    pcall,      \* the put call in progress or the last one
    rxq,        \* frames that arrived on the socket and were not read yet
    rxlog,      \* what the get call in progress did with the frames it read
    gcall       \* the get call in progress or the last one

filterVars == <<port, prog, frame, pc, regA, regX, verdict>>
xidVars    == <<State, xids, xcall>>
timerVars  == <<slots, handles, tasks, now, arms, tcall>>
sockVars   == <<msgs, sent, pcall, rxq, rxlog, gcall>>
vars       == <<filterVars, xidVars, timerVars, sockVars>>

(***************************************************************************)
(* Bit operations on naturals, computed bit by bit.                        *)
(***************************************************************************)
RECURSIVE BitAnd(_, _)
BitAnd(a, b) ==
    IF a = 0 \/ b = 0 THEN 0
    ELSE (IF a % 2 = 1 /\ b % 2 = 1 THEN 1 ELSE 0)
         + 2 * BitAnd(a \div 2, b \div 2)

RECURSIVE BitOr(_, _)
BitOr(a, b) ==
    IF a = 0 THEN b
    ELSE IF b = 0 THEN a
    ELSE (IF a % 2 = 1 \/ b % 2 = 1 THEN 1 ELSE 0)
         + 2 * BitOr(a \div 2, b \div 2)

(***************************************************************************)
(*                       PART 1 - the socket filter                        *)
(***************************************************************************)
SKF_AD_OFF == -4096
SKF_AD_VLAN_TAG_PRESENT == 48
IPPROTO_UDP == 17
ETH_HEADER_SIZE == 14
UDP_HEADER_SIZE == 8

Insn(code, jt, jf, k) == [code |-> code, jt |-> jt, jf |-> jf, k |-> k]

\* listen_udp_port reading the UDP source port (X + 14) instead of the
\* destination port (X + 16).
listen_udp_port_sport(p) ==
    << Insn(<<"LD", "B", "ABS">>, 0, 0, SKF_AD_OFF + SKF_AD_VLAN_TAG_PRESENT),
       Insn(<<"JMP", "JEQ", "K">>, 0, 10, 0),
       Insn(<<"LD", "H", "ABS">>, 0, 0, 12),
       Insn(<<"JMP", "JEQ", "K">>, 0, 8, 2048),
       Insn(<<"LD", "B", "ABS">>, 0, 0, 23),
       Insn(<<"JMP", "JEQ", "K">>, 0, 6, IPPROTO_UDP),
       Insn(<<"LD", "H", "ABS">>, 0, 0, 20),
       Insn(<<"JMP", "JSET", "K">>, 4, 0, 8191),
       Insn(<<"LDX", "B", "MSH">>, 0, 0, 14),
       Insn(<<"LD", "H", "IND">>, 0, 0, 14),
       Insn(<<"JMP", "JEQ", "K">>, 0, 1, p),
       Insn(<<"RET", "K">>, 0, 0, 65535),
       Insn(<<"RET", "K">>, 0, 0, 0) >>

\* listen_udp_port with the false branch of its first jump one too far (11
\* instead of 10).
listen_udp_port_jf_too_far(p) ==
    << Insn(<<"LD", "B", "ABS">>, 0, 0, SKF_AD_OFF + SKF_AD_VLAN_TAG_PRESENT),
       Insn(<<"JMP", "JEQ", "K">>, 0, 11, 0),
       Insn(<<"LD", "H", "ABS">>, 0, 0, 12),
       Insn(<<"JMP", "JEQ", "K">>, 0, 8, 2048),
       Insn(<<"LD", "B", "ABS">>, 0, 0, 23),
       Insn(<<"JMP", "JEQ", "K">>, 0, 6, IPPROTO_UDP),
       Insn(<<"LD", "H", "ABS">>, 0, 0, 20),
       Insn(<<"JMP", "JSET", "K">>, 4, 0, 8191),
       Insn(<<"LDX", "B", "MSH">>, 0, 0, 14),
       Insn(<<"LD", "H", "IND">>, 0, 0, 16),
       Insn(<<"JMP", "JEQ", "K">>, 0, 1, p),
       Insn(<<"RET", "K">>, 0, 0, 65535),
       Insn(<<"RET", "K">>, 0, 0, 0) >>

\* The program listen_udp_port(port) returns: one [code, jt, jf, k] per line.
listen_udp_port(p) ==
    << Insn(<<"LD", "B", "ABS">>, 0, 0, SKF_AD_OFF + SKF_AD_VLAN_TAG_PRESENT),
       Insn(<<"JMP", "JEQ", "K">>, 0, 10, 0),
       Insn(<<"LD", "H", "ABS">>, 0, 0, 12),
       Insn(<<"JMP", "JEQ", "K">>, 0, 8, 2048),
       Insn(<<"LD", "B", "ABS">>, 0, 0, 23),
       Insn(<<"JMP", "JEQ", "K">>, 0, 6, IPPROTO_UDP),
       Insn(<<"LD", "H", "ABS">>, 0, 0, 20),
       Insn(<<"JMP", "JSET", "K">>, 4, 0, 8191),
       Insn(<<"LDX", "B", "MSH">>, 0, 0, 14),
       Insn(<<"LD", "H", "IND">>, 0, 0, 16),
       Insn(<<"JMP", "JEQ", "K">>, 0, 1, p),
       Insn(<<"RET", "K">>, 0, 0, 65535),
       Insn(<<"RET", "K">>, 0, 0, 0) >>

(* A raw frame: the VLAN-tag-present ancillary datum the kernel keeps      *)
(* beside the packet, and the packet bytes b[0 .. len-1].                  *)
HasByte(f, k) == k >= 0 /\ k + 1 <= f.len
HasHalf(f, k) == k >= 0 /\ k + 2 <= f.len
ByteAt(f, k) == f.b[k]
HalfAt(f, k) == 256 * f.b[k] + f.b[k + 1]

\* Offset of the UDP header of a frame whose first IPv4 byte is vihl.
UdpOffset(vihl) == ETH_HEADER_SIZE + 4 * (vihl % 16)

\* The frame of `len` bytes carrying the given header fields, zero elsewhere.
MkFrame(vlan, ethertype, vihl, frag, proto, sport, dport, len) ==
    [vlan |-> vlan,
     len  |-> len,
     b    |-> [i \in 0 .. (len - 1) |->
                 CASE i = 12 -> ethertype \div 256
                   [] i = 13 -> ethertype % 256
                   [] i = 14 -> vihl
                   [] i = 20 -> frag \div 256
                   [] i = 21 -> frag % 256
                   [] i = 23 -> proto
                   [] i = UdpOffset(vihl)     -> sport \div 256
                   [] i = UdpOffset(vihl) + 1 -> sport % 256
                   [] i = UdpOffset(vihl) + 2 -> dport \div 256
                   [] i = UdpOffset(vihl) + 3 -> dport % 256
                   [] OTHER -> 0]]

\* Inputs of the filter evaluation.
Ports      == {67, 68}
VlanFlags  == {0, 1}
EtherTypes == {2048, 2054, 34525}
VerIhls    == {69, 70, 79, 65}
FragFields == {0, 16384, 8192, 1, 8191, 8377}
IpProtos   == {17, 6}
FrameLens(vihl) ==
    {12, 22, UdpOffset(vihl) + 3, UdpOffset(vihl) + UDP_HEADER_SIZE}

Frames ==
    { MkFrame(t[1], t[2], t[3], t[4], t[5], t[6], t[7], t[8]) :
        t \in { u \in VlanFlags \X EtherTypes \X VerIhls \X FragFields
                       \X IpProtos \X Ports \X Ports \X (0 .. 82) :
                  u[8] \in FrameLens(u[3]) } }

CurInsn == prog[pc + 1]
Running == verdict = <<>> /\ pc >= 0 /\ pc < Len(prog)

\* BPF_LD | BPF_B | BPF_ABS and BPF_LD | BPF_H | BPF_ABS: load from a fixed
\* offset; the ancillary offset SKF_AD_OFF + SKF_AD_VLAN_TAG_PRESENT loads
\* the VLAN indicator; a load outside the packet ends the run with 0.
BpfLoadAbs ==
    /\ Running
    /\ CurInsn.code \in {<<"LD", "B", "ABS">>, <<"LD", "H", "ABS">>}
    /\ LET k == CurInsn.k
           wide == CurInsn.code[2] = "H"
       IN  IF k = SKF_AD_OFF + SKF_AD_VLAN_TAG_PRESENT
           THEN /\ regA' = frame.vlan
                /\ pc' = pc + 1
                /\ verdict' = verdict
           ELSE IF (wide /\ HasHalf(frame, k)) \/ (~wide /\ HasByte(frame, k))
           THEN /\ regA' = IF wide THEN HalfAt(frame, k) ELSE ByteAt(frame, k)
                /\ pc' = pc + 1
                /\ verdict' = verdict
           ELSE /\ verdict' = <<0>>
                /\ UNCHANGED <<regA, pc>>
    /\ UNCHANGED <<port, prog, frame, regX, xidVars, timerVars, sockVars>>

\* BPF_LDX | BPF_B | BPF_MSH: X <- 4 * (P[k] & 0xf).
BpfLoadMsh ==
    /\ Running
    /\ CurInsn.code = <<"LDX", "B", "MSH">>
    /\ IF HasByte(frame, CurInsn.k)
       THEN /\ regX' = 4 * BitAnd(ByteAt(frame, CurInsn.k), 15)
            /\ pc' = pc + 1
            /\ verdict' = verdict
       ELSE /\ verdict' = <<0>>
            /\ UNCHANGED <<regX, pc>>
    /\ UNCHANGED <<port, prog, frame, regA, xidVars, timerVars, sockVars>>

\* BPF_LD | BPF_H | BPF_IND: A <- P[X + k : 2].
BpfLoadInd ==
    /\ Running
    /\ CurInsn.code = <<"LD", "H", "IND">>
    /\ IF HasHalf(frame, regX + CurInsn.k)
       THEN /\ regA' = HalfAt(frame, regX + CurInsn.k)
            /\ pc' = pc + 1
            /\ verdict' = verdict
       ELSE /\ verdict' = <<0>>
            /\ UNCHANGED <<regA, pc>>
    /\ UNCHANGED <<port, prog, frame, regX, xidVars, timerVars, sockVars>>

\* BPF_JMP | BPF_JEQ | BPF_K: pc += (A == k) ? jt : jf.
BpfJeq ==
    /\ Running
    /\ CurInsn.code = <<"JMP", "JEQ", "K">>
    /\ pc' = pc + 1 + (IF regA = CurInsn.k THEN CurInsn.jt ELSE CurInsn.jf)
    /\ UNCHANGED <<port, prog, frame, regA, regX, verdict, xidVars, timerVars, sockVars>>

\* BPF_JMP | BPF_JSET | BPF_K: pc += (A & k) ? jt : jf.
BpfJset ==
    /\ Running
    /\ CurInsn.code = <<"JMP", "JSET", "K">>
    /\ pc' = pc + 1 + (IF BitAnd(regA, CurInsn.k) # 0
                       THEN CurInsn.jt ELSE CurInsn.jf)
    /\ UNCHANGED <<port, prog, frame, regA, regX, verdict, xidVars, timerVars, sockVars>>

\* BPF_RET | BPF_K: the run ends, k bytes of the packet are delivered.
BpfRet ==
    /\ Running
    /\ CurInsn.code = <<"RET", "K">>
    /\ verdict' = <<CurInsn.k>>
    /\ UNCHANGED <<port, prog, frame, pc, regA, regX, xidVars, timerVars, sockVars>>

SlotNames == <<"renewal", "rebinding", "expiration">>
Slots == {SlotNames[i] : i \in 1 .. 3}

XidIdle == /\ State = {}
           /\ xids = <<>>
           /\ xcall = [op |-> "none"]

NoHandle == 0

TimersIdle == /\ slots = [s \in Slots |-> NoHandle]
              /\ handles = <<>>
              /\ tasks = <<>>
              /\ now = 0
              /\ arms = <<>>
              /\ tcall = [op |-> "none"]

SockIdle == /\ msgs = <<>>
            /\ sent = <<>>
            /\ pcall = [st |-> "none"]
            /\ rxq = <<>>
            /\ rxlog = <<>>
            /\ gcall = [st |-> "none"]

FilterIdle == /\ port = 68
              /\ prog = <<>>
              /\ frame = [vlan |-> 0, len |-> 0, b |-> <<>>]
              /\ pc = 0
              /\ regA = 0
              /\ regX = 0
              /\ verdict = <<>>

InitFilter ==
    /\ port \in Ports
    /\ prog = listen_udp_port(port)
    /\ frame \in Frames
    /\ pc = 0
    /\ regA = 0
    /\ regX = 0
    /\ verdict = <<>>
    /\ XidIdle
    /\ TimersIdle
    /\ SockIdle

NextFilter ==
    \/ BpfLoadAbs
    \/ BpfLoadMsh
    \/ BpfLoadInd
    \/ BpfJeq
    \/ BpfJset
    \/ BpfRet

SpecFilter == InitFilter /\ [][NextFilter]_vars

\* The kernel runs the program to its end on every frame it is given.
LiveSpecFilter == SpecFilter /\ WF_vars(NextFilter)

(***************************************************************************)
(* Claims about the socket filter.                                         *)
(***************************************************************************)
Accepted == verdict = <<65535>>
Dropped  == verdict = <<0>>
Finished == verdict # <<>>

\* The five conditions of the filter, read off the frame itself; a field
\* that lies outside the frame satisfies none of them.
FrameIsUntagged == frame.vlan = 0
FrameIsIPv4 == HasHalf(frame, 12) /\ 256 * frame.b[12] + frame.b[13] = 2048
FrameIsUDP == HasByte(frame, 23) /\ frame.b[23] = 17
FrameFragOffsetZero ==
    /\ HasHalf(frame, 20)
    /\ (256 * frame.b[20] + frame.b[21]) % 8192 = 0
FrameDportIsPort ==
    /\ HasByte(frame, 14)
    /\ LET off == 4 * (frame.b[14] % 16) + 16
       IN  HasHalf(frame, off) /\ 256 * frame.b[off] + frame.b[off + 1] = port

\* C1: a finished evaluation of listen_udp_port(port) returns 65535 exactly
\* when the frame is untagged, IPv4, UDP, has the low 13 bits of the field at
\* offset 20 zero and carries `port` at offset 4*(byte 14 & 0xf)+16; in every
\* other case (a VLAN-tagged frame, another port, ...) it returns 0.
C1_AcceptIffAllFive ==
    Finished =>
        /\ verdict \in {<<0>>, <<65535>>}
        /\ Accepted <=> ( /\ FrameIsUntagged
                          /\ FrameIsIPv4
                          /\ FrameIsUDP
                          /\ FrameFragOffsetZero
                          /\ FrameDportIsPort )
        /\ (frame.vlan # 0 => Dropped)

C1_Witness ==
    /\ Accepted
    /\ port = 68
    /\ frame.vlan = 0
    /\ frame.b[14] = 70
    /\ frame.b[40] = 0 /\ frame.b[41] = 68

\* A frame is a fragment when its More-Fragments flag (0x2000 of the field at
\* offset 20) is set or its fragment offset (the low 13 bits) is not zero.
FrameIsFragment ==
    /\ HasHalf(frame, 20)
    /\ LET ff == 256 * frame.b[20] + frame.b[21]
       IN  (ff \div 8192) % 2 = 1 \/ ff % 8192 # 0

\* C2: no fragment of a fragmented datagram is accepted.
C2_NoFragmentAccepted == Accepted => ~FrameIsFragment

IsReturn(insn) == insn.code = <<"RET", "K">>
IsJump(insn) == insn.code[1] = "JMP"
IsLoad(insn) == insn.code[1] \in {"LD", "LDX"}

\* C17 as stated: every finished evaluation has ended in one of the two
\* return instructions.
C17_EndsInReturn == Finished => IsReturn(CurInsn)

\* Every jump of the program goes forward and lands inside the program.
JumpsForwardInside ==
    \A i \in DOMAIN prog :
        IsJump(prog[i]) =>
            /\ prog[i].jt >= 0
            /\ prog[i].jf >= 0
            /\ i + prog[i].jt < Len(prog)
            /\ i + prog[i].jf < Len(prog)

\* C17, amended: the program has 13 instructions, ends with its two returns
\* and every jump goes forward to an instruction of the program; the
\* evaluation never leaves the program, each step moves to a later
\* instruction or ends the run, and every run ends: in one of the two
\* return instructions, or at a load that reaches beyond the end of the
\* frame, which the filter engine turns into drop.
C17_FilterTerminates ==
    /\ [](/\ Len(prog) = 13
           /\ IsReturn(prog[12]) /\ prog[12].k = 65535
           /\ IsReturn(prog[13]) /\ prog[13].k = 0
           /\ JumpsForwardInside
           /\ pc \in 0 .. (Len(prog) - 1)
           /\ Finished =>
                 \/ IsReturn(CurInsn) /\ verdict = <<CurInsn.k>>
                 \/ IsLoad(CurInsn) /\ Dropped)
    /\ [][ \/ pc' > pc /\ verdict' = <<>>
           \/ pc' = pc /\ verdict = <<>> /\ verdict' # <<>> ]_vars
    /\ <>Finished

\* A frame with a 60-byte IPv4 header that ends before its UDP ports: the run
\* ended with drop at the load of the destination port (instruction 9).
C17_Witness ==
    /\ Dropped
    /\ pc = 9
    /\ CurInsn.code = <<"LD", "H", "IND">>
    /\ frame.b[14] = 79
    /\ FrameIsUntagged /\ FrameIsIPv4 /\ FrameIsUDP /\ FrameFragOffsetZero

(***************************************************************************)
(*                  PART 2 - transaction identifiers                       *)
(***************************************************************************)
(* A Python int is kept as two limbs, value = hi * 65536 + lo with         *)
(* 0 <= lo < 65536 (hi < 0 for a negative int), so that 32-bit values and  *)
(* the values around 0xFFFFFFFF stay exact.                                *)
PyInt(hi, lo) == [hi |-> hi, lo |-> lo]
IntLt(a, b) == a.hi < b.hi \/ (a.hi = b.hi /\ a.lo < b.lo)
IntLe(a, b) == a = b \/ IntLt(a, b)
\* a & m for a mask 0 <= m <= 0xFFFFFFFF (two's complement for a negative a)
IntAnd(a, m) == PyInt(BitAnd(a.hi % 65536, m.hi), BitAnd(a.lo, m.lo))
\* a | n for a >= 0 and a small int 0 <= n < 65536
IntOr(a, n) == PyInt(a.hi, BitOr(a.lo, n))

\* What random.randint can be asked for: samples around both ends of the
\* range of random_xid_prefix and inside it.
IntSamples ==
    { PyInt(0, 15), PyInt(0, 16), PyInt(0, 31),
      PyInt(65535, 65520), PyInt(65535, 65521) }
randint(a, b) == { v \in IntSamples : IntLe(a, v) /\ IntLe(v, b) }

random_xid_prefix == randint(PyInt(0, 16), PyInt(65535, 65520))

\* Explicit values handed to Xid(value): -1, 0x12345675, 0xFFFFFFFE,
\* 0xFFFFFFFF, 0x100000000.
SeedValues ==
    { PyInt(-1, 65535), PyInt(4660, 22133), PyInt(65535, 65534),
      PyInt(65535, 65535), PyInt(65536, 0) }

\* The members of pyroute2.dhcp.fsm.State, an IntEnum on 4 bits: either every
\* tag is a member, or the tags 9 .. 15 are not.
StateEnums == { 0 .. 15, 0 .. 8 }

\* Outcomes of a call: a returned value (<<>> for None) or a raised exception.
Ret(v) == [raised |-> FALSE, exc |-> "", ret |-> <<v>>]
RetNone == [raised |-> FALSE, exc |-> "", ret |-> <<>>]
Raise(e) == [raised |-> TRUE, exc |-> e, ret |-> <<>>]

\* State(n): the member of value n, ValueError when there is none.
StateOf(n) == IF n \in State THEN Ret(n) ELSE Raise("ValueError")

\* Xid.__init__ accepting 0xFFFFFFFF as well (assert value <= 0xFFFFFFFF).
Xid__init__le(value) ==
    IF IntLe(value, PyInt(65535, 65535))
    THEN Ret(value)
    ELSE Raise("AssertionError")

\* Xid.__init__ with an explicit value: the _value of the new Xid.
Xid__init__(value) ==
    IF IntLt(value, PyInt(65535, 65535))
    THEN Ret(value)
    ELSE Raise("AssertionError")

\* Xid.random_part: self._value & 0xFFFFFFF0
random_part(v) == IntAnd(v, PyInt(65535, 65520))

\* Xid.request_state masking a whole byte (self._value & 0xFF).
request_state_byte(v) ==
    LET r == StateOf(IntAnd(v, PyInt(0, 255)).lo)
    IN  IF r.raised /\ r.exc = "ValueError" THEN RetNone ELSE r

\* Xid.request_state: State(self._value & 0xF), None on ValueError.
request_state(v) ==
    LET r == StateOf(IntAnd(v, PyInt(0, 15)).lo)
    IN  IF r.raised /\ r.exc = "ValueError" THEN RetNone ELSE r

\* Xid.for_state OR-ing the state into the whole value (self._value | state).
for_state_or(v, state) == Xid__init__(IntOr(v, state))

\* Xid.for_state: Xid(self.random_part | state)
for_state(v, state) == Xid__init__(IntOr(random_part(v), state))

\* Xid.matches comparing the whole values.
matches_whole(v, w) == v = w

\* Xid.matches: self.random_part == received_xid.random_part
matches(v, w) == random_part(v) = random_part(w)

\* Xid.__eq__: self._value == value; for an Xid operand Python falls back on
\* the reflected comparison, which compares the two _value.
Xid__eq__(v, w) == w = v

MaxXids == 2

\* An Xid object: its _value, and where it came from (seeded: built from an
\* explicit value; parent/root/tag: built by for_state(tag) on xids[parent],
\* whose chain of for_state calls starts at xids[root]).
NewXid(v, seeded, parent, root, tag) ==
    [value |-> v, seeded |-> seeded, parent |-> parent, root |-> root,
     tag |-> tag]

\* A call on xids[self] (0: a constructor) and its outcome; `before` is the
\* objects as they were when a call that builds an Xid was made.
Call(op, self, arg, out) ==
    [op |-> op, self |-> self, arg |-> arg, raised |-> out.raised,
     ret |-> out.ret,
     before |-> IF op \in {"new_seed", "for_state"} THEN xids ELSE <<>>]

\* Xid()
XidNew ==
    /\ Len(xids) < MaxXids
    /\ \E v \in random_xid_prefix :
         /\ xids' = Append(xids, NewXid(v, FALSE, 0, Len(xids) + 1, -1))
         /\ xcall' = Call("new", 0, <<>>, Ret(Len(xids) + 1))
    /\ UNCHANGED <<State, filterVars, timerVars, sockVars>>

\* Xid(value)
XidNewSeed ==
    /\ Len(xids) < MaxXids
    /\ \E v \in SeedValues :
         LET r == Xid__init__(v)
         IN  IF r.raised
             THEN /\ xids' = xids
                  /\ xcall' = Call("new_seed", 0, <<v>>, r)
             ELSE /\ xids' = Append(xids,
                               NewXid(r.ret[1], TRUE, 0, Len(xids) + 1, -1))
                  /\ xcall' = Call("new_seed", 0, <<v>>, Ret(Len(xids) + 1))
    /\ UNCHANGED <<State, filterVars, timerVars, sockVars>>

\* xids[i].for_state(s)
XidForState ==
    /\ Len(xids) < MaxXids
    /\ \E i \in DOMAIN xids, s \in State :
         LET r == for_state(xids[i].value, s)
         IN  IF r.raised
             THEN /\ xids' = xids
                  /\ xcall' = Call("for_state", i, <<s>>, r)
             ELSE /\ xids' = Append(xids,
                               NewXid(r.ret[1], xids[i].seeded, i,
                                      xids[i].root, s))
                  /\ xcall' = Call("for_state", i, <<s>>, Ret(Len(xids) + 1))
    /\ UNCHANGED <<State, filterVars, timerVars, sockVars>>

\* xids[i].request_state
XidRequestState ==
    /\ \E i \in DOMAIN xids :
         xcall' = Call("request_state", i, <<>>, request_state(xids[i].value))
    /\ UNCHANGED <<State, xids, filterVars, timerVars, sockVars>>

\* xids[i].matches(xids[j])
XidMatches ==
    /\ \E i \in DOMAIN xids, j \in DOMAIN xids :
         xcall' = Call("matches", i, <<j>>,
                       Ret(matches(xids[i].value, xids[j].value)))
    /\ UNCHANGED <<State, xids, filterVars, timerVars, sockVars>>

InitXid ==
    /\ State \in StateEnums
    /\ xids = <<>>
    /\ xcall = [op |-> "none"]
    /\ FilterIdle
    /\ TimersIdle
    /\ SockIdle

NextXid ==
    \/ XidNew
    \/ XidNewSeed
    \/ XidForState
    \/ XidRequestState
    \/ XidMatches

SpecXid == InitXid /\ [][NextXid]_vars

(***************************************************************************)
(* Claims about transaction identifiers.                                   *)
(***************************************************************************)
Upper28(v) == <<v.hi % 65536, v.lo \div 16>>
Nibble(v) == v.lo % 16
Fits32(v) == v.hi >= 0 /\ v.hi <= 65535 /\ v.lo >= 0 /\ v.lo <= 65535
Unseeded(i) == ~xids[i].seeded /\ xids[i].parent = 0

\* C3: every Xid constructed without an explicit value fits in 32 bits, has
\* its low 4 bits zero and equals its own random_part.
C3_UnseededLowNibbleZero ==
    \A i \in DOMAIN xids :
        Unseeded(i) =>
            /\ Fits32(xids[i].value)
            /\ Nibble(xids[i].value) = 0
            /\ xids[i].value = random_part(xids[i].value)

\* C4: for an Xid x constructed without a value and a state s, x.for_state(s)
\* raises nothing and x.for_state(s).request_state is s.
C4_ForStateThenRequestState ==
    (xcall.op = "for_state" /\ Unseeded(xcall.self)) =>
        /\ ~xcall.raised
        /\ xcall.ret # <<>>
        /\ request_state(xids[xcall.ret[1]].value) = Ret(xcall.arg[1])

\* C5: a.matches(b) is true exactly when a and b agree on bits 4..31, it is
\* symmetric, and a == b (same whole value) implies a.matches(b).
C5_MatchesIffSameRandomPart ==
    xcall.op = "matches" =>
        LET a == xids[xcall.self].value
            b == xids[xcall.arg[1]].value
        IN  /\ ~xcall.raised
            /\ xcall.ret[1] <=> (Upper28(a) = Upper28(b))
            /\ xcall.ret[1] <=> matches(b, a)
            /\ Xid__eq__(a, b) <=> (a.hi = b.hi /\ a.lo = b.lo)
            /\ Xid__eq__(a, b) => xcall.ret[1]

\* Two Xids with the same random part and different tags: they match and are
\* not equal.
C5_Witness ==
    /\ xcall.op = "matches"
    /\ xcall.ret = <<TRUE>>
    /\ Nibble(xids[xcall.self].value) # Nibble(xids[xcall.arg[1]].value)
    /\ ~Xid__eq__(xids[xcall.self].value, xids[xcall.arg[1]].value)

TooBig(v) == v.hi > 65535 \/ (v.hi = 65535 /\ v.lo >= 65535)

\* C7: Xid(v) raises and creates no Xid when v >= 0xFFFFFFFF; when
\* v < 0xFFFFFFFF it creates an Xid whose value is v.
C7_ExplicitValueRange ==
    xcall.op = "new_seed" =>
        LET v == xcall.arg[1]
        IN  /\ xcall.raised <=> TooBig(v)
            /\ xcall.raised => xids = xcall.before
            /\ ~xcall.raised =>
                 /\ Len(xids) = Len(xcall.before) + 1
                 /\ xcall.ret = <<Len(xids)>>
                 /\ xids[Len(xids)].value = v

\* Xid(0xFFFFFFFF) was refused after Xid(0xFFFFFFFE) was built.
C7_Witness ==
    /\ xcall.op = "new_seed"
    /\ xcall.raised
    /\ xcall.arg = <<PyInt(65535, 65535)>>
    /\ \E i \in DOMAIN xids : xids[i].value = PyInt(65535, 65534)

\* C8: request_state never raises; it returns the state whose value is the
\* low nibble when State has one and None otherwise, whatever bits 4..31 are.
C8_RequestStateTotal ==
    xcall.op = "request_state" =>
        LET n == Nibble(xids[xcall.self].value)
        IN  /\ ~xcall.raised
            /\ xcall.ret = (IF n \in State THEN <<n>> ELSE <<>>)
            /\ \A j \in DOMAIN xids :
                 Nibble(xids[j].value) = n =>
                     request_state(xids[j].value).ret = xcall.ret

\* request_state returned None for a nibble State does not know, and another
\* Xid with other upper bits has that nibble too.
C8_Witness ==
    /\ xcall.op = "request_state"
    /\ xcall.ret = <<>>
    /\ \E j \in DOMAIN xids :
         /\ Nibble(xids[j].value) = Nibble(xids[xcall.self].value)
         /\ Upper28(xids[j].value) # Upper28(xids[xcall.self].value)

(***************************************************************************)
(*                        PART 3 - lease timers                            *)
(***************************************************************************)
(* The Timers instance is the record [slots, handles]: slots maps each     *)
(* timer name to the index in `handles` of the TimerHandle it holds        *)
(* (NoHandle for None); handles are the TimerHandle objects of the loop.   *)
Handle(slot, cb, gen, when) ==
    [slot |-> slot, cb |-> cb, gen |-> gen, when |-> when,
     cancelled |-> FALSE, fired |-> FALSE]

\* A handle the loop will still run: neither cancelled nor run yet.
Pending(h) == ~h.cancelled /\ ~h.fired

\* Timers._reset_timer setting the slot to None without timer.cancel().
reset_timer_no_cancel(T, timer_name) ==
    LET timer == T.slots[timer_name]
    IN  IF timer # NoHandle
        THEN [slots   |-> [T.slots EXCEPT ![timer_name] = NoHandle],
              handles |-> T.handles]
        ELSE T

\* Timers._reset_timer: cancel the timer of the slot, unless it says it is
\* cancelled already, and set the slot to None.
reset_timer(T, timer_name) ==
    LET timer == T.slots[timer_name]
    IN  IF timer # NoHandle
        THEN [slots   |-> [T.slots EXCEPT ![timer_name] = NoHandle],
              handles |-> IF ~T.handles[timer].cancelled
                          THEN [T.handles EXCEPT ![timer].cancelled = TRUE]
                          ELSE T.handles]
        ELSE T

RECURSIVE cancel_from(_, _)
cancel_from(T, k) ==
    IF k > Len(SlotNames) THEN T
    ELSE cancel_from(reset_timer(T, SlotNames[k]), k + 1)

\* Timers.cancel resetting the 'renewal' timer only.
cancel_renewal_only(T) == reset_timer(T, "renewal")

\* Timers.cancel: _reset_timer for 'renewal', 'rebinding', 'expiration'.
cancel(T) == cancel_from(T, 1)

\* One iteration of the loop of arm that schedules whatever the lease says,
\* a time in the past included.
arm_iter_any_time(T, lease, c, gen, at) ==
    LET T1 == reset_timer(T, c.name)
        lease_time == lease[c.name]
    IN  IF lease_time = <<>> \/ lease_time[1] = 0
        THEN T1
        ELSE [slots   |-> [T1.slots EXCEPT ![c.name] = Len(T1.handles) + 1],
              handles |-> Append(T1.handles,
                                 Handle(c.name, c.cb, gen, at + lease_time[1]))]

\* One iteration of the loop of arm, for the callback c = (timer_name,
\* async_callback): reset the slot, skip a lease time that is None or 0, skip
\* one in the past, else loop.call_later(lease_time, ...) into the slot.
arm_iter(T, lease, c, gen, at) ==
    LET T1 == reset_timer(T, c.name)
        lease_time == lease[c.name]
    IN  IF lease_time = <<>> \/ lease_time[1] = 0
        THEN T1
        ELSE IF lease_time[1] < 0
        THEN T1
        ELSE [slots   |-> [T1.slots EXCEPT ![c.name] = Len(T1.handles) + 1],
              handles |-> Append(T1.handles,
                                 Handle(c.name, c.cb, gen, at + lease_time[1]))]

RECURSIVE arm_loop(_, _, _, _, _, _)
arm_loop(T, lease, callbacks, k, gen, at) ==
    IF k > Len(callbacks) THEN T
    ELSE arm_loop(arm_iter(T, lease, callbacks[k], gen, at),
                  lease, callbacks, k + 1, gen, at)

\* Timers.arm without its leading self.cancel().
arm_no_cancel(T, lease, callbacks, gen, at) ==
    arm_loop(T, lease, callbacks, 1, gen, at)

\* Timers.arm: self.cancel(), then the loop over callbacks.items().
arm(T, lease, callbacks, gen, at) ==
    arm_loop(cancel(T), lease, callbacks, 1, gen, at)

\* The lambda given to call_later reading async_callback when it runs (no
\* cb=async_callback default): the callback of the last turn of the loop of
\* the arm call that scheduled the handle.
timer_callback_late_binding(h) ==
    LET names == arms[handles[h].gen].names
    IN  [cb |-> <<handles[h].gen, names[Len(names)]>>, handle |-> h]

\* What the lambda given to call_later does when the loop runs the handle:
\* asyncio.create_task(cb()) with the callback bound when it was scheduled.
timer_callback(h) == [cb |-> handles[h].cb, handle |-> h]

\* The loop running the handle h and clearing the slot of its timer.
run_timer_clears_slot(T, h) ==
    [slots   |-> [T.slots EXCEPT ![T.handles[h].slot] = NoHandle],
     handles |-> [T.handles EXCEPT ![h].fired = TRUE]]

\* The loop running the handle h: the handle has run; the lambda it runs
\* spawns the task and touches no field of the Timers instance.
run_timer(T, h) ==
    [slots   |-> T.slots,
     handles |-> [T.handles EXCEPT ![h].fired = TRUE]]

MaxArms == 2

Lease(renewal_in, rebinding_in, expiration_in) ==
    [renewal |-> renewal_in, rebinding |-> rebinding_in,
     expiration |-> expiration_in]

\* Leases handed to arm: <<>> is a time that is None.
Leases ==
    { Lease(<<30>>, <<-5>>, <<3600>>),
      Lease(<<>>, <<0>>, <<30>>),
      Lease(<<10>>, <<20>>, <<>>) }

\* The names of the callbacks handed to arm, in keyword order.
CallbackNames ==
    { <<"renewal", "rebinding", "expiration">>,
      <<"expiration", "renewal">>,
      <<"rebinding">> }

\* timers.arm(lease, **callbacks)
Arm ==
    /\ Len(arms) < MaxArms
    /\ \E lease \in Leases, names \in CallbackNames :
         LET gen == Len(arms) + 1
             callbacks == [i \in DOMAIN names |->
                             [name |-> names[i], cb |-> <<gen, names[i]>>]]
             T == arm([slots |-> slots, handles |-> handles],
                      lease, callbacks, gen, now)
         IN  /\ slots' = T.slots
             /\ handles' = T.handles
             /\ arms' = Append(arms, [lease |-> lease, names |-> names,
                                      at |-> now, direct |-> tcall.op = "arm"])
    /\ tcall' = [op |-> "arm"]
    /\ UNCHANGED <<tasks, now, filterVars, xidVars, sockVars>>

\* timers.cancel()
Cancel ==
    /\ LET T == cancel([slots |-> slots, handles |-> handles])
       IN  /\ slots' = T.slots
           /\ handles' = T.handles
    /\ tcall' = [op |-> "cancel"]
    /\ UNCHANGED <<tasks, now, arms, filterVars, xidVars, sockVars>>

\* timers.<slot>.cancel(): the owner of the Timers instance cancels the
\* pending TimerHandle a slot holds; the slot keeps the handle.
HandleCancel ==
    /\ \E s \in Slots :
         /\ slots[s] # NoHandle
         /\ Pending(handles[slots[s]])
         /\ handles' = [handles EXCEPT ![slots[s]].cancelled = TRUE]
    /\ tcall' = [op |-> "handle_cancel"]
    /\ UNCHANGED <<slots, tasks, now, arms, filterVars, xidVars, sockVars>>

\* Time passes on the loop, up to the deadline of a pending handle.
Advance ==
    /\ \E h \in DOMAIN handles :
         /\ Pending(handles[h])
         /\ handles[h].when > now
         /\ now' = handles[h].when
    /\ tcall' = [op |-> "advance"]
    /\ UNCHANGED <<slots, handles, tasks, arms, filterVars, xidVars, sockVars>>

\* The loop runs a handle that is due and was not cancelled.
Fire ==
    /\ \E h \in DOMAIN handles :
         /\ Pending(handles[h])
         /\ handles[h].when <= now
         /\ LET T == run_timer([slots |-> slots, handles |-> handles], h)
            IN  /\ slots' = T.slots
                /\ handles' = T.handles
         /\ tasks' = Append(tasks, timer_callback(h))
    /\ tcall' = [op |-> "fire"]
    /\ UNCHANGED <<now, arms, filterVars, xidVars, sockVars>>

InitTimers ==
    /\ TimersIdle
    /\ FilterIdle
    /\ XidIdle
    /\ SockIdle

NextTimers ==
    \/ Arm
    \/ Cancel
    \/ HandleCancel
    \/ Advance
    \/ Fire

SpecTimers == InitTimers /\ [][NextTimers]_vars

\* The loop runs the handles that are due.
LiveSpecTimers == SpecTimers /\ WF_vars(Fire)

(***************************************************************************)
(* Claims about lease timers.                                              *)
(***************************************************************************)
LastArm == arms[Len(arms)]
\* The arm call number g was followed by another arm call with no step of
\* the loop (and no other call) in between.
ArmedAgainAtOnce(g) == g < Len(arms) /\ arms[g + 1].direct

\* C9: right after arm returns, every pending handle and every handle in a
\* slot was scheduled by that call; and of two arm calls in succession, no
\* handle of the first call is ever run, so none of its callbacks is launched.
C9_ArmReplacesPreviousTimers ==
    /\ tcall.op = "arm" =>
         /\ \A h \in DOMAIN handles :
              Pending(handles[h]) =>
                  /\ handles[h].gen = Len(arms)
                  /\ slots[handles[h].slot] = h
         /\ \A s \in Slots :
              slots[s] # NoHandle =>
                  /\ handles[slots[s]].gen = Len(arms)
                  /\ handles[slots[s]].slot = s
    /\ \A h \in DOMAIN handles :
         ArmedAgainAtOnce(handles[h].gen) =>
             /\ ~handles[h].fired
             /\ handles[h].cancelled
    /\ \A t \in DOMAIN tasks :
         /\ ~ArmedAgainAtOnce(tasks[t].cb[1])
         /\ ~ArmedAgainAtOnce(handles[tasks[t].handle].gen)

\* Two arm calls in succession, both scheduling timers; later the clock has
\* passed the deadlines of the first call and a timer of the second has run.
C9_Witness ==
    /\ Len(arms) = 2
    /\ arms[2].direct
    /\ \E h \in DOMAIN handles :
         handles[h].gen = 1 /\ handles[h].when < now
    /\ \E t \in DOMAIN tasks : tasks[t].cb[1] = 2

\* lease.<slot>_in is a number above zero.
PositiveTime(lease, s) == lease[s] # <<>> /\ lease[s][1] > 0
Supplied(names, s) == \E i \in DOMAIN names : names[i] = s

\* C10: right after arm(lease, callbacks) returns, a slot holds a handle
\* exactly when a callback was supplied for it and the lease's time for it is
\* above zero, and that handle is pending, runs that callback and is due
\* that many seconds after the call.
C10_ArmSchedulesPositiveTimes ==
    tcall.op = "arm" =>
        \A s \in Slots :
            /\ slots[s] # NoHandle <=>
                   (Supplied(LastArm.names, s) /\ PositiveTime(LastArm.lease, s))
            /\ slots[s] # NoHandle =>
                   LET h == handles[slots[s]]
                   IN  /\ Pending(h)
                       /\ h.slot = s
                       /\ h.cb = <<Len(arms), s>>
                       /\ h.when = LastArm.at + LastArm.lease[s][1]

\* The lease renewal_in=30, rebinding_in=-5, expiration_in=3600 with all
\* three callbacks, armed at a time other than 0: renewal and expiration are
\* scheduled 30 and 3600 seconds ahead, rebinding is not.
C10_Witness ==
    /\ tcall.op = "arm"
    /\ LastArm.lease = Lease(<<30>>, <<-5>>, <<3600>>)
    /\ LastArm.names = <<"renewal", "rebinding", "expiration">>
    /\ LastArm.at > 0
    /\ slots["renewal"] # NoHandle
    /\ slots["rebinding"] = NoHandle
    /\ slots["expiration"] # NoHandle
    /\ handles[slots["renewal"]].when = now + 30
    /\ handles[slots["expiration"]].when = now + 3600

\* C11: whatever arm, cancel and firings have happened, every pending handle
\* is the one its slot holds, so no two pending handles were scheduled for
\* the same slot.
C11_OneLiveHandlePerSlot ==
    /\ \A h \in DOMAIN handles :
         Pending(handles[h]) => slots[handles[h].slot] = h
    /\ \A g, h \in DOMAIN handles :
         (Pending(handles[g]) /\ Pending(handles[h])
            /\ handles[g].slot = handles[h].slot) => g = h

\* A slot holds a pending handle of the second arm while an earlier handle
\* of the same slot has run and another slot's earlier handle was cancelled
\* before it ran.
C11_Witness ==
    \E h, g, f \in DOMAIN handles :
        /\ Pending(handles[h])
        /\ handles[h].gen = 2
        /\ slots[handles[h].slot] = h
        /\ handles[g].slot = handles[h].slot
        /\ handles[g].gen = 1
        /\ handles[g].fired
        /\ handles[f].gen = 1
        /\ handles[f].cancelled
        /\ ~handles[f].fired

\* The tasks spawned for the handle h.
TasksOf(ts, h) == {t \in DOMAIN ts : ts[t].handle = h}

\* C12: a step that is a cancel call ends with all three slots empty and no
\* handle pending, whatever the slots held before (nothing, a pending, a run
\* or a cancelled handle), and it runs no handle and spawns no task; and a
\* handle that is cancelled before it ran is never run afterwards: it stays
\* cancelled, not run and without a task.
C12_CancelStopsTimers ==
    [][ /\ tcall'.op = "cancel" =>
             /\ \A s \in Slots : slots'[s] = NoHandle
             /\ DOMAIN handles' = DOMAIN handles
             /\ \A h \in DOMAIN handles' :
                  /\ ~Pending(handles'[h])
                  /\ handles'[h].fired = handles[h].fired
             /\ tasks' = tasks
        /\ \A h \in DOMAIN handles :
             (handles[h].cancelled /\ ~handles[h].fired) =>
                 /\ handles'[h].cancelled
                 /\ ~handles'[h].fired
                 /\ TasksOf(tasks', h) = {}
      ]_vars

\* cancel has just returned with the slots empty; it was called with a run
\* handle in a slot at least once, a handle cancelled before it ran has its
\* deadline behind the clock and no task.
C12_Witness ==
    /\ tcall.op = "cancel"
    /\ \A s \in Slots : slots[s] = NoHandle
    /\ \E f \in DOMAIN handles : handles[f].fired /\ handles[f].cancelled
    /\ \E c \in DOMAIN handles :
         /\ handles[c].cancelled
         /\ ~handles[c].fired
         /\ handles[c].when < now
         /\ TasksOf(tasks, c) = {}

Due(h) == Pending(h) /\ h.when <= now

C20_FiringLeavesSlots ==
    [][ /\ (\E h \in DOMAIN handles :
                ~handles[h].fired /\ handles'[h].fired) => slots' = slots
        /\ \A s \in Slots :
              (slots[s] # NoHandle /\ handles[slots[s]].fired) =>
                  IF tcall'.op \in {"arm", "cancel"}
                  THEN slots'[s] # slots[s]
                  ELSE slots'[s] = slots[s] ]_vars

\* Both timers of an arm have run: the renewal and rebinding slots still
\* hold their handles and no handle of the loop is pending.
C20_Witness ==
    /\ tcall.op = "fire"
    /\ slots["renewal"] # NoHandle
    /\ slots["rebinding"] # NoHandle
    /\ slots["renewal"] # slots["rebinding"]
    /\ handles[slots["renewal"]].fired
    /\ handles[slots["rebinding"]].fired
    /\ \A h \in DOMAIN handles : ~Pending(handles[h])

(***************************************************************************)
(*                        PART 4 - the DHCP socket                         *)
(***************************************************************************)
(* Bytes are the numbers 0 .. 255 and a buffer is a sequence of bytes; the  *)
(* offsets of the code count from 0.  A MAC address is its 6 bytes, an IPv4 *)
(* address its 4 bytes, a transaction id its 4 bytes; <<>> is None.         *)
IPV4_HEADER_SIZE == 20
ETHERTYPE_IP == 2048
RECV_SIZE == 4096

\* struct '>H' and 'B': pack and unpack.
U16(n) == << n \div 256, n % 256 >>
RdU16(buf, off) == 256 * buf[off + 1] + buf[off + 2]
RdU8(buf, off) == buf[off + 1]
Slice(buf, off, n) == SubSeq(buf, off + 1, off + n)

\* A decoded layer: its fields and the offset where the next layer starts.
Layer(fields, offset) ==
    [raised |-> FALSE, exc |-> "", fields |-> fields, offset |-> offset]
DecodeError(layer) ==
    [raised |-> TRUE, exc |-> "ValueError", fields |-> layer, offset |-> 0]

\* ethmsg: dst (6 bytes), src (6 bytes), type (16 bits).
ethmsg_encode(m) == m.dst \o m.src \o U16(m.type)
ethmsg_decode(buf, offset) ==
    IF Len(buf) - offset < 14 THEN DecodeError("eth")
    ELSE Layer([dst  |-> Slice(buf, offset, 6),
                src  |-> Slice(buf, offset + 6, 6),
                type |-> RdU16(buf, offset + 12)], offset + 14)

\* ip4msg: verlen (0x45 by default), dsf, len, id, flags, ttl (128 by
\* default), proto, csum, src, dst; the decoded header ends 4 * IHL bytes
\* after its start.
ip4msg_encode(m) ==
    << 69, 0 >> \o U16(m.len) \o U16(0) \o U16(0) \o << 128, m.proto >>
        \o U16(m.csum) \o m.src \o m.dst
ip4msg_decode(buf, offset) ==
    IF Len(buf) - offset < IPV4_HEADER_SIZE THEN DecodeError("ip4")
    ELSE LET hlen == 4 * (RdU8(buf, offset) % 16)
         IN  IF hlen < IPV4_HEADER_SIZE \/ Len(buf) - offset < hlen
             THEN DecodeError("ip4")
             ELSE Layer([len   |-> RdU16(buf, offset + 2),
                         proto |-> RdU8(buf, offset + 9),
                         csum  |-> RdU16(buf, offset + 10),
                         src   |-> Slice(buf, offset + 12, 4),
                         dst   |-> Slice(buf, offset + 16, 4)],
                        offset + hlen)

\* udpmsg: sport, dport, len, csum (16 bits each).
udpmsg_encode(m) == U16(m.sport) \o U16(m.dport) \o U16(m.len) \o U16(m.csum)
udpmsg_decode(buf, offset) ==
    IF Len(buf) - offset < UDP_HEADER_SIZE THEN DecodeError("udp")
    ELSE Layer([sport |-> RdU16(buf, offset),
                dport |-> RdU16(buf, offset + 2),
                len   |-> RdU16(buf, offset + 4),
                csum  |-> RdU16(buf, offset + 6)], offset + UDP_HEADER_SIZE)

\* udp4_pseudo_header: src, dst, a zero byte, the protocol, len.
udp4_pseudo_header_encode(m) ==
    m.src \o m.dst \o << 0, IPPROTO_UDP >> \o U16(m.len)

\* dhcp4msg, reduced to the fields the socket touches: op (1 byte), xid
\* (4 bytes), chaddr (6 bytes).
DHCP_SIZE == 11
dhcp4msg_encode(m) == << m.op >> \o m.xid \o m.chaddr
dhcp4msg_decode(buf, offset) ==
    IF Len(buf) - offset < DHCP_SIZE THEN DecodeError("dhcp")
    ELSE Layer([op     |-> RdU8(buf, offset),
                xid    |-> Slice(buf, offset + 1, 4),
                chaddr |-> Slice(buf, offset + 5, 6)], offset + DHCP_SIZE)

\* AsyncRawSocket.csum: the Internet checksum, the complement of the
\* one's-complement sum of the 16-bit words of data (padded with a zero
\* byte when its length is odd).
RECURSIVE SumWords(_, _)
SumWords(data, i) ==
    IF i > Len(data) THEN 0
    ELSE 256 * data[i] + (IF i + 1 <= Len(data) THEN data[i + 1] ELSE 0)
         + SumWords(data, i + 2)

csum(data) ==
    LET s0 == SumWords(data, 1)
        s1 == (s0 \div 65536) + (s0 % 65536)
        s2 == s1 + (s1 \div 65536)
    IN  65535 - (s2 % 65536)

\* A SentDHCPMessage: the DHCP payload and the addresses and ports to send
\* it with.
SentDHCPMessage(dhcp, eth_src, eth_dst, ip_src, ip_dst, sport, dport) ==
    [dhcp |-> dhcp, eth_src |-> eth_src, eth_dst |-> eth_dst,
     ip_src |-> ip_src, ip_dst |-> ip_dst, sport |-> sport, dport |-> dport]

\* A ReceivedDHCPMessage, as _decode_msg builds it.
ReceivedDHCPMessage(dhcp, eth_src, eth_dst, ip_src, ip_dst, sport, dport) ==
    [dhcp |-> dhcp, eth_src |-> eth_src, eth_dst |-> eth_dst,
     ip_src |-> ip_src, ip_dst |-> ip_dst, sport |-> sport, dport |-> dport]

\* self.l2addr: the link-layer address of the interface the socket is bound to.
l2addr == << 2, 0, 0, 0, 0, 1 >>

\* put filling chaddr with the socket's address instead of msg.eth_src.
put_autofill_l2addr(self_l2addr, msg) ==
    LET m1 == IF msg.eth_src = <<>>
              THEN [msg EXCEPT !.eth_src = self_l2addr] ELSE msg
    IN  IF m1.dhcp.chaddr = <<>>
        THEN [m1 EXCEPT !.dhcp.chaddr = self_l2addr] ELSE m1

\* put, the auto-filled fields: msg.eth_src when it is not set, then
\* dhcp['chaddr'] when it is None.
put_autofill(self_l2addr, msg) ==
    LET m1 == IF msg.eth_src = <<>>
              THEN [msg EXCEPT !.eth_src = self_l2addr] ELSE msg
    IN  IF m1.dhcp.chaddr = <<>>
        THEN [m1 EXCEPT !.dhcp.chaddr = m1.eth_src] ELSE m1

\* put assembling the frame with the IPv4 source and destination exchanged
\* in the IPv4 header.
put_frame_ip_swapped(self_port, msg) ==
    LET data == dhcp4msg_encode(msg.dhcp)
        dhcp_payload_size == Len(data)
        udp0 == [sport |-> self_port, dport |-> msg.dport,
                 len |-> UDP_HEADER_SIZE + dhcp_payload_size, csum |-> 0]
        udph == [src |-> msg.ip_src, dst |-> msg.ip_dst,
                 len |-> UDP_HEADER_SIZE + dhcp_payload_size]
        udp == [udp0 EXCEPT !.csum =
                   csum(udp4_pseudo_header_encode(udph)
                        \o udpmsg_encode(udp0) \o data)]
        ip40 == [len |-> IPV4_HEADER_SIZE + UDP_HEADER_SIZE + dhcp_payload_size,
                 proto |-> IPPROTO_UDP, dst |-> msg.ip_src, src |-> msg.ip_dst,
                 csum |-> 0]
        ip4 == [ip40 EXCEPT !.csum = csum(ip4msg_encode(ip40))]
        eth == [dst |-> msg.eth_dst, src |-> msg.eth_src,
                type |-> ETHERTYPE_IP]
    IN  ethmsg_encode(eth) \o ip4msg_encode(ip4) \o udpmsg_encode(udp) \o data

\* put, the assembly of the frame: the DHCP payload, the UDP header with its
\* checksum over pseudo-header + header + payload, the IPv4 header with its
\* checksum, the Ethernet header; the frame is their concatenation.
put_frame(self_port, msg) ==
    LET data == dhcp4msg_encode(msg.dhcp)
        dhcp_payload_size == Len(data)
        udp0 == [sport |-> self_port, dport |-> msg.dport,
                 len |-> UDP_HEADER_SIZE + dhcp_payload_size, csum |-> 0]
        udph == [src |-> msg.ip_src, dst |-> msg.ip_dst,
                 len |-> UDP_HEADER_SIZE + dhcp_payload_size]
        udp == [udp0 EXCEPT !.csum =
                   csum(udp4_pseudo_header_encode(udph)
                        \o udpmsg_encode(udp0) \o data)]
        ip40 == [len |-> IPV4_HEADER_SIZE + UDP_HEADER_SIZE + dhcp_payload_size,
                 proto |-> IPPROTO_UDP, dst |-> msg.ip_dst, src |-> msg.ip_src,
                 csum |-> 0]
        ip4 == [ip40 EXCEPT !.csum = csum(ip4msg_encode(ip40))]
        eth == [dst |-> msg.eth_dst, src |-> msg.eth_src,
                type |-> ETHERTYPE_IP]
    IN  ethmsg_encode(eth) \o ip4msg_encode(ip4) \o udpmsg_encode(udp) \o data

\* The outcome of put up to its await: the exception raised if any, msg as
\* it is left, and the frame handed to sock_sendall.
PutOutcome(exc, msg, data) ==
    [raised |-> exc # "", exc |-> exc, msg |-> msg, data |-> data]

\* put checking the source port after the fields were auto-filled.
put_check_late(self_port, self_l2addr, msg) ==
    LET m == put_autofill(self_l2addr, msg)
    IN  IF msg.sport # self_port
        THEN PutOutcome("ValueError", m, <<>>)
        ELSE PutOutcome("", m, put_frame(self_port, m))

\* put, from its first line to the await of sock_sendall.
put(self_port, self_l2addr, msg) ==
    IF msg.sport # self_port
    THEN PutOutcome("ValueError", msg, <<>>)
    ELSE LET m == put_autofill(self_l2addr, msg)
         IN  PutOutcome("", m, put_frame(self_port, m))

\* AsyncDHCP4Socket._decode_msg: the four layers in turn, each decoded where
\* the one before ended; the first error is the outcome.
decode_msg(data) ==
    LET eth == ethmsg_decode(data, 0)
    IN  IF eth.raised THEN [raised |-> TRUE, exc |-> eth.exc, ret |-> <<>>]
    ELSE LET ip4 == ip4msg_decode(data, eth.offset)
    IN  IF ip4.raised THEN [raised |-> TRUE, exc |-> ip4.exc, ret |-> <<>>]
    ELSE LET udp == udpmsg_decode(data, ip4.offset)
    IN  IF udp.raised THEN [raised |-> TRUE, exc |-> udp.exc, ret |-> <<>>]
    ELSE LET dhcp == dhcp4msg_decode(data, udp.offset)
    IN  IF dhcp.raised THEN [raised |-> TRUE, exc |-> dhcp.exc, ret |-> <<>>]
    ELSE Ret(ReceivedDHCPMessage(dhcp.fields, eth.fields.src, eth.fields.dst,
                                 ip4.fields.src, ip4.fields.dst,
                                 udp.fields.sport, udp.fields.dport))

MaxPuts == 2

\* The messages handed to put: eth_src and chaddr set or not, broadcast or
\* unicast addresses, either source port, and two transaction ids (with the
\* second one, sent from port 68 with nothing set, the words of the UDP
\* checksum add up to 0xFFFF).
MacValues == { <<>>, << 2, 0, 0, 0, 0, 9 >> }
ChaddrValues == { <<>>, << 2, 0, 0, 0, 0, 7 >> }
IpPairs == { << <<0, 0, 0, 0>>, <<255, 255, 255, 255>> >>,
             << <<10, 0, 0, 5>>, <<10, 0, 0, 1>> >> }
XidBytes == { << 18, 52, 86, 120 >>, << 0, 154, 63, 99 >> }
SentMessages ==
    { SentDHCPMessage([op |-> 1, xid |-> x, chaddr |-> c], e,
                      << 255, 255, 255, 255, 255, 255 >>,
                      ip[1], ip[2], sp, 67) :
        x \in XidBytes, c \in ChaddrValues, e \in MacValues,
        ip \in IpPairs, sp \in Ports }

\* await sock.put(msg), up to the await of sock_sendall: msg becomes the
\* object msgs[n], left as put leaves it.
PutCall ==
    /\ pcall.st \in {"none", "returned", "raised"}
    /\ Len(msgs) < MaxPuts
    /\ \E m \in SentMessages :
         LET r == put(port, l2addr, m)
         IN  /\ msgs' = Append(msgs, r.msg)
             /\ pcall' = [st |-> IF r.raised THEN "raised" ELSE "sending",
                          exc |-> r.exc, msg |-> Len(msgs) + 1, arg |-> m,
                          data |-> r.data, nsent |-> Len(sent),
                          prev |-> IF pcall.st = "none" THEN "" ELSE pcall.exc,
                          ret |-> <<>>, dec |-> <<>>]
    /\ UNCHANGED <<sent, rxq, rxlog, gcall, filterVars, xidVars, timerVars>>

\* sock_sendall completes: the frame is on the wire, put resets the DHCP
\* buffer and returns msg.
PutSent ==
    /\ pcall.st = "sending"
    /\ sent' = Append(sent, pcall.data)
    /\ pcall' = [pcall EXCEPT !.st = "returned", !.ret = <<pcall.msg>>]
    /\ UNCHANGED <<msgs, rxq, rxlog, gcall, filterVars, xidVars, timerVars>>

\* sock_sendall raises OSError: nothing is sent and put raises it.
PutSendError ==
    /\ pcall.st = "sending"
    /\ pcall' = [pcall EXCEPT !.st = "raised", !.exc = "OSError"]
    /\ UNCHANGED <<msgs, sent, rxq, rxlog, gcall, filterVars, xidVars,
                   timerVars>>

\* AsyncDHCP4Socket._decode_msg(frame) on the frame the last put has sent.
DecodeSent ==
    /\ pcall.st = "returned"
    /\ pcall.dec = <<>>
    /\ pcall' = [pcall EXCEPT !.dec = <<decode_msg(sent[Len(sent)])>>]
    /\ UNCHANGED <<msgs, sent, rxq, rxlog, gcall, filterVars, xidVars,
                   timerVars>>

\* AsyncDHCP4Socket.__init__: the filter of the port is installed and the
\* port kept.
SockInit ==
    /\ port \in Ports
    /\ prog = listen_udp_port(port)
    /\ frame = [vlan |-> 0, len |-> 0, b |-> <<>>]
    /\ pc = 0
    /\ regA = 0
    /\ regX = 0
    /\ verdict = <<>>
    /\ SockIdle

InitPut ==
    /\ SockInit
    /\ XidIdle
    /\ TimersIdle

NextPut ==
    \/ PutCall
    \/ PutSent
    \/ PutSendError
    \/ DecodeSent

SpecPut == InitPut /\ [][NextPut]_vars

(***************************************************************************)
(* Claims about put.                                                       *)
(***************************************************************************)
\* C13: put(msg) raises ValueError exactly when msg.sport is not the
\* socket's port, and then no frame is handed to sock_sendall or sent and
\* msg is as it was (eth_src and chaddr not filled); a put that follows such
\* a failure with the right port sends its one frame and returns its msg.
C13_PutWrongSportFails ==
    pcall.st # "none" =>
        /\ (pcall.arg.sport # port) <=> (pcall.exc = "ValueError")
        /\ pcall.arg.sport # port =>
              /\ pcall.st = "raised"
              /\ msgs[pcall.msg] = pcall.arg
              /\ pcall.data = <<>>
              /\ Len(sent) = pcall.nsent
        /\ (pcall.st = "returned" /\ pcall.prev = "ValueError") =>
              /\ Len(sent) = pcall.nsent + 1
              /\ sent[Len(sent)] = pcall.data
              /\ pcall.ret = <<pcall.msg>>

\* A put from the wrong port with nothing set failed and left its msg with
\* nothing set; the next put has sent its frame.
C13_Witness ==
    /\ Len(msgs) = 2
    /\ msgs[1].sport # port
    /\ msgs[1].eth_src = <<>>
    /\ msgs[1].dhcp.chaddr = <<>>
    /\ pcall.st = "returned"
    /\ pcall.prev = "ValueError"
    /\ Len(sent) = 1

(***************************************************************************)
(* get: the receive loop.                                                  *)
(***************************************************************************)
MaxArrivals == 3

\* A frame as a DHCP server sends it: Ethernet, IPv4 with `options` bytes of
\* IPv4 options after the fixed header, UDP from port 67 to port 68, and the
\* DHCP body with the given transaction id.
ServerFrame(xid, options) ==
    LET data == dhcp4msg_encode([op |-> 2, xid |-> xid,
                                 chaddr |-> l2addr])
        ip4 == ip4msg_encode([len |-> IPV4_HEADER_SIZE + Len(options)
                                        + UDP_HEADER_SIZE + Len(data),
                              proto |-> IPPROTO_UDP, csum |-> 0,
                              src |-> <<10, 0, 0, 1>>, dst |-> <<10, 0, 0, 5>>])
    IN  ethmsg_encode([dst |-> l2addr, src |-> <<2, 0, 0, 0, 0, 254>>,
                       type |-> ETHERTYPE_IP])
        \o << 64 + (IPV4_HEADER_SIZE + Len(options)) \div 4 >> \o Tail(ip4)
        \o options
        \o udpmsg_encode([sport |-> 67, dport |-> 68,
                          len |-> UDP_HEADER_SIZE + Len(data), csum |-> 0])
        \o data

\* The frames that arrive: two whole ones, one with IPv4 options, and frames
\* cut short inside the Ethernet header (10 bytes), the IPv4 header (30),
\* the IPv4 options (36 of a 38-byte header end), the UDP header (40) and
\* the DHCP body (42 bytes: no body at all; 50: half of it).
RxFrames ==
    { ServerFrame(<<18, 52, 86, 120>>, <<>>),
      ServerFrame(<<18, 52, 86, 114>>, <<>>),
      ServerFrame(<<18, 52, 86, 120>>, <<1, 1, 1, 1>>),
      Slice(ServerFrame(<<18, 52, 86, 120>>, <<>>), 0, 10),
      Slice(ServerFrame(<<18, 52, 86, 120>>, <<>>), 0, 30),
      Slice(ServerFrame(<<18, 52, 86, 120>>, <<1, 1, 1, 1>>), 0, 36),
      Slice(ServerFrame(<<18, 52, 86, 120>>, <<>>), 0, 40),
      Slice(ServerFrame(<<18, 52, 86, 120>>, <<>>), 0, 42),
      Slice(ServerFrame(<<18, 52, 86, 120>>, <<>>), 0, 50) }

\* sock_recv(self, 4096): at most 4096 bytes of the next frame.
sock_recv(data) ==
    IF Len(data) > RECV_SIZE THEN Slice(data, 0, RECV_SIZE) ELSE data

\* One turn of the loop of get without its try/except.
get_iter_no_except(raw) == decode_msg(raw)

\* One turn of the loop of get on the bytes received: msg = _decode_msg(raw),
\* a ValueError is logged and leaves msg None; any other exception leaves
\* the loop and get.
get_iter(raw) ==
    LET r == decode_msg(raw)
    IN  IF r.raised /\ r.exc = "ValueError" THEN RetNone ELSE r

\* A frame arrives on the socket.
Arrive ==
    /\ Len(rxlog) + Len(rxq) < MaxArrivals
    /\ \E f \in RxFrames : rxq' = Append(rxq, f)
    /\ UNCHANGED <<msgs, sent, pcall, rxlog, gcall, filterVars, xidVars,
                   timerVars>>

\* await sock.get(): msg = None, the loop is entered and waits in sock_recv.
GetCall ==
    /\ gcall.st \in {"none", "returned"}
    /\ gcall' = [st |-> "waiting",
                 n |-> IF gcall.st = "none" THEN 1 ELSE gcall.n + 1,
                 ret |-> <<>>]
    /\ UNCHANGED <<msgs, sent, pcall, rxq, rxlog, filterVars, xidVars,
                   timerVars>>

\* sock_recv returns the next frame and the loop of get takes one turn; with
\* msg set the loop ends and get returns msg.
GetRecv ==
    /\ gcall.st = "waiting"
    /\ rxq # <<>>
    /\ LET raw == sock_recv(Head(rxq))
           r == get_iter(raw)
       IN  /\ rxq' = Tail(rxq)
           /\ rxlog' = Append(rxlog, [data |-> raw, call |-> gcall.n,
                                      msg |-> r.ret])
           /\ gcall' = IF r.raised
                        THEN [gcall EXCEPT !.st = "raised"]
                        ELSE IF r.ret # <<>>
                        THEN [gcall EXCEPT !.st = "returned", !.ret = r.ret]
                        ELSE gcall
    /\ UNCHANGED <<msgs, sent, pcall, filterVars, xidVars, timerVars>>

InitGet ==
    /\ SockInit
    /\ XidIdle
    /\ TimersIdle

NextGet ==
    \/ Arrive
    \/ GetCall
    \/ GetRecv

SpecGet == InitGet /\ [][NextGet]_vars

\* The steps of GetRecv, told by what they do to the queue: a waiting get
\* takes the frame at its head (no other action shortens the queue).
RecvStep ==
    /\ gcall.st = "waiting"
    /\ rxq # <<>>
    /\ rxq' = Tail(rxq)

\* The loop resumes get whenever a frame is there to be received.
LiveSpecGet == SpecGet /\ WF_rxq(RecvStep)

(***************************************************************************)
(* Claims about get.                                                       *)
(***************************************************************************)
\* The frames read by the get call in progress (or the last one).
ReadByCall == {i \in DOMAIN rxlog : rxlog[i].call = gcall.n}
\* Every frame that has arrived on the socket, in arrival order.
Arrived == [i \in DOMAIN rxlog |-> rxlog[i].data] \o rxq
Decodable(data) == ~decode_msg(data).raised

\* C14: get never raises; while it waits, every frame it has read failed to
\* decode; when it has returned, it returned the message decoded from the
\* last frame it read, every frame it read before failed to decode, and it
\* reads nothing more; frames are read in arrival order, one per turn, and
\* only by a waiting get; and a get that waits with a decodable frame among
\* the frames not read yet eventually returns.
C14_GetReturnsFirstDecodable ==
    /\ [](gcall.st \in {"waiting", "returned"} =>
            /\ \A i \in ReadByCall :
                  (i < Len(rxlog) \/ gcall.st = "waiting") =>
                      /\ ~Decodable(rxlog[i].data)
                      /\ rxlog[i].msg = <<>>
            /\ gcall.st = "returned" =>
                  /\ Len(rxlog) \in ReadByCall
                  /\ Decodable(rxlog[Len(rxlog)].data)
                  /\ gcall.ret = decode_msg(rxlog[Len(rxlog)].data).ret
                  /\ gcall.ret # <<>>)
    /\ [](gcall.st # "raised")
    /\ [][ /\ \/ Arrived' = Arrived
               \/ \E f \in RxFrames : Arrived' = Append(Arrived, f)
            /\ rxlog' # rxlog =>
                  /\ gcall.st = "waiting"
                  /\ Len(rxlog') = Len(rxlog) + 1
                  /\ rxlog'[Len(rxlog')].call = gcall.n
       ]_vars
    /\ ((gcall.st = "waiting" /\ \E i \in DOMAIN rxq : Decodable(rxq[i]))
            ~> gcall.st = "returned")

\* get has returned the message of the second whole frame after reading a
\* 42-byte frame (no DHCP body), and a whole frame that arrived later is
\* still waiting to be read.
C14_Witness ==
    /\ gcall.st = "returned"
    /\ gcall.n = 1
    /\ Len(rxlog) = 2
    /\ Len(rxlog[1].data) = 42
    /\ gcall.ret[1].dhcp.xid = <<18, 52, 86, 114>>
    /\ rxq # <<>>
    /\ Decodable(rxq[1])

\* C15: the frame put has sent is the Ethernet header, the IPv4 header, the
\* UDP header and the DHCP bytes in that order, and _decode_msg of it
\* succeeds with the DHCP fields, the MAC addresses, the IPv4 addresses and
\* the UDP ports of msg as put left it (auto-filled fields set).
C15_PutDecodeRoundTrip ==
    (pcall.st = "returned" /\ pcall.dec # <<>>) =>
        LET m == msgs[pcall.msg]
            data == sent[Len(sent)]
            r == pcall.dec[1]
        IN  /\ Len(data) = ETH_HEADER_SIZE + IPV4_HEADER_SIZE
                              + UDP_HEADER_SIZE + DHCP_SIZE
            /\ Slice(data, 12, 3) = <<8, 0, 69>>
            /\ RdU8(data, ETH_HEADER_SIZE + 9) = 17
            /\ RdU16(data, ETH_HEADER_SIZE + IPV4_HEADER_SIZE + 4)
                   = UDP_HEADER_SIZE + DHCP_SIZE
            /\ ~r.raised
            /\ r.ret # <<>>
            /\ r.ret[1].dhcp.op = m.dhcp.op
            /\ r.ret[1].dhcp.xid = m.dhcp.xid
            /\ r.ret[1].dhcp.chaddr = m.dhcp.chaddr
            /\ r.ret[1].eth_src = m.eth_src
            /\ r.ret[1].eth_dst = m.eth_dst
            /\ r.ret[1].ip_src = m.ip_src
            /\ r.ret[1].ip_dst = m.ip_dst
            /\ r.ret[1].sport = m.sport
            /\ r.ret[1].dport = m.dport

\* The frame of a message handed over with neither eth_src nor chaddr set,
\* between unicast addresses, was decoded: both come back as the socket's
\* address.
C15_Witness ==
    /\ pcall.st = "returned"
    /\ pcall.dec # <<>>
    /\ pcall.arg.eth_src = <<>>
    /\ pcall.arg.dhcp.chaddr = <<>>
    /\ pcall.arg.ip_src = <<10, 0, 0, 5>>
    /\ pcall.dec[1].ret[1].eth_src = l2addr
    /\ pcall.dec[1].ret[1].dhcp.chaddr = l2addr
    /\ pcall.dec[1].ret[1].ip_dst = <<10, 0, 0, 1>>

\* The 16-bit one's-complement checksum of a buffer, from the arithmetic of
\* one's-complement addition: the sum of the words is their sum modulo
\* 0xFFFF (0xFFFF instead of 0 for a sum that is not 0), and the checksum is
\* its complement.
OnesComplementChecksum(data) ==
    LET total == SumWords(data, 1)
        sum == IF total = 0 THEN 0 ELSE ((total - 1) % 65535) + 1
    IN  65535 - sum

\* The bytes the UDP checksum of an assembled frame covers: the pseudo-header
\* (addresses, zero, protocol, UDP length), the UDP header with a zero
\* checksum field, and the DHCP payload.
UdpChecksumInput(data) ==
    LET udp == ETH_HEADER_SIZE + IPV4_HEADER_SIZE
    IN  Slice(data, ETH_HEADER_SIZE + 12, 8)
        \o << 0, IPPROTO_UDP >> \o Slice(data, udp + 4, 2)
        \o Slice(data, udp, 6) \o << 0, 0 >>
        \o Slice(data, udp + UDP_HEADER_SIZE,
                 Len(data) - udp - UDP_HEADER_SIZE)
UdpChecksumField(data) == RdU16(data, ETH_HEADER_SIZE + IPV4_HEADER_SIZE + 6)

\* C16: in every frame put has assembled, the UDP checksum field is the
\* one's-complement checksum of pseudo-header + UDP header + payload, with
\* 0xFFFF in the place of a computed 0; the field is never 0.
C16_UdpChecksumNeverZero ==
    (pcall.st \in {"sending", "returned"}) =>
        LET c == OnesComplementChecksum(UdpChecksumInput(pcall.data))
        IN  /\ UdpChecksumField(pcall.data) = (IF c = 0 THEN 65535 ELSE c)
            /\ UdpChecksumField(pcall.data) # 0

\* C19: while put awaits sock_sendall it has not returned and its frame is
\* not sent yet; when it has returned, it returned the msg it was given,
\* exactly one frame was sent, msg.eth_src is what it was if it was set and
\* the socket's address if not, chaddr is what it was if it was set and
\* msg.eth_src if not, the other fields of msg are what they were, and the
\* source address of the frame's Ethernet header is msg.eth_src.
C19_PutSendsOneFrame ==
    /\ pcall.st = "sending" =>
          /\ pcall.ret = <<>>
          /\ Len(sent) = pcall.nsent
    /\ pcall.st = "returned" =>
          LET m == msgs[pcall.msg]
              a == pcall.arg
          IN  /\ pcall.ret = <<pcall.msg>>
              /\ Len(sent) = pcall.nsent + 1
              /\ m.eth_src = (IF a.eth_src # <<>> THEN a.eth_src ELSE l2addr)
              /\ m.dhcp.chaddr = (IF a.dhcp.chaddr # <<>>
                                  THEN a.dhcp.chaddr ELSE m.eth_src)
              /\ m.eth_dst = a.eth_dst
              /\ m.ip_src = a.ip_src
              /\ m.ip_dst = a.ip_dst
              /\ m.sport = a.sport
              /\ m.dport = a.dport
              /\ m.dhcp.xid = a.dhcp.xid
              /\ m.dhcp.op = a.dhcp.op
              /\ Slice(sent[Len(sent)], 6, 6) = m.eth_src

\* The second put of a socket has returned: its msg came with eth_src set to
\* an address other than the socket's and without chaddr, and chaddr is now
\* that address.
C19_Witness ==
    /\ pcall.st = "returned"
    /\ pcall.msg = 2
    /\ Len(sent) = 2
    /\ pcall.arg.eth_src = <<2, 0, 0, 0, 0, 9>>
    /\ pcall.arg.dhcp.chaddr = <<>>
    /\ msgs[2].dhcp.chaddr = <<2, 0, 0, 0, 0, 9>>
    /\ Slice(sent[2], 6, 6) = <<2, 0, 0, 0, 0, 9>>

====
